---- MODULE Spec2Model ----
(***************************************************************************)
(* A model of the youtube-to-short web front-end: the URL identifier       *)
(* parser, the quality-tier extraction, the probing and the segment plan   *)
(* of split_and_resize, the link of a segment, and the HTTP handlers with  *)
(* the files they create.                                                  *)
(*                                                                         *)
(* The programs share most of their code:                                  *)
(*   "test"   youtube_downloader_test.py  (GET /split, GET /segment)       *)
(*   "video"  youtube_downloader_video.py (GET /download, file kept)       *)
(*   "copy2", "copy"  the two copies in unnamed/part_000 (GET /download,   *)
(*            file removed after streaming)                                *)
(***************************************************************************)
EXTENDS Integers, Sequences, FiniteSets, TLC

(***************************************************************************)
(* Bounds of the model.                                                    *)
(***************************************************************************)
\* Durations are exact multiples of 1/DurUnit second.
DurUnit == 4
\* The longest probed duration, in seconds.
MaxSeconds == 190

(***************************************************************************)
(* Exact rational arithmetic: a rational is [n |-> numerator, d |->        *)
(* denominator] with d > 0.  Python's float arithmetic is modelled by      *)
(* exact arithmetic on these.                                              *)
(***************************************************************************)
Rat(n, d) == [n |-> n, d |-> d]

RatLeq(a, b) == a.n * b.d <= b.n * a.d

RatMin(a, b) == IF RatLeq(a, b) THEN a ELSE b

RatMul(k, a) == Rat(k * a.n, a.d)

\* math.ceil of a non-negative rational
Ceil(a) == (a.n + a.d - 1) \div a.d

\* int() of a non-negative rational: truncation
Trunc(a) == a.n \div a.d

\* Python 3 round(x): to the nearest integer, a tie to the even one.
PyRound(a) ==
  LET f == a.n \div a.d
      twice == 2 * (a.n % a.d)
  IN  IF twice < a.d THEN f
      ELSE IF twice > a.d THEN f + 1
      ELSE IF f % 2 = 0 THEN f ELSE f + 1

Max(a, b) == IF a >= b THEN a ELSE b

(***************************************************************************)
(* split_and_resize: the segment plan.  dur is the probed duration in      *)
(* units of 1/DurUnit second.                                              *)
(***************************************************************************)
MAX_LEN == 60

Duration(dur) == Rat(dur, DurUnit)

\* a slip: one more than the whole number of caps in the duration
num_segs_floor(dur) == Max(1, Trunc(Rat(dur, MAX_LEN * DurUnit)) + 1)

\* a slip: the whole number of caps in the duration, rounded down
num_segs_trunc(dur) == Max(1, Trunc(Rat(dur, MAX_LEN * DurUnit)))

num_segs(dur) == Max(1, Ceil(Rat(dur, MAX_LEN * DurUnit)))

seg_len(dur) == Rat(dur, DurUnit * num_segs(dur))

SegStart(dur, i) == PyRound(RatMul(i, seg_len(dur)))

\* a slip: the end rounded up instead of to the nearest
SegEndCeil(dur, i) == Ceil(RatMin(RatMul(i + 1, seg_len(dur)), Duration(dur)))

SegEnd(dur, i) == PyRound(RatMin(RatMul(i + 1, seg_len(dur)), Duration(dur)))

\* the crop of the vertical orientation: crop_h = in_h
crop_h(in_h) == in_h

\* crop_w = int(in_h * 9/16)
crop_w(in_h) == Trunc(Rat(in_h * 9, 16))

\* crop_x = (in_w - crop_w)//2, the floor of the half
crop_x(in_w, in_h) == (in_w - crop_w(in_h)) \div 2

\* crop_y = (in_h - crop_h)//2
crop_y(in_h) == (in_h - crop_h(in_h)) \div 2

(***************************************************************************)
(* parse_video_id.  A string is a sequence of one-character strings.       *)
(***************************************************************************)
\* the character class [0-9A-Za-z_-]
IdChars ==
  {"0", "1", "2", "3", "4", "5", "6", "7", "8", "9", "A", "B", "C",
   "D", "E", "F", "G", "H", "I", "J", "K", "L", "M", "N", "O", "P",
   "Q", "R", "S", "T", "U", "V", "W", "X", "Y", "Z", "a", "b", "c",
   "d", "e", "f", "g", "h", "i", "j", "k", "l", "m", "n", "o", "p",
   "q", "r", "s", "t", "u", "v", "w", "x", "y", "z", "_", "-"}

\* {11}: the length of the captured group
ID_LEN == 11

\* the literal text in front of the group, per pattern, in the order tried
patterns ==
  << <<"v", "=">>,
     <<"y", "o", "u", "t", "u", ".", "b", "e", "/">>,
     <<"e", "m", "b", "e", "d", "/">> >>

\* whether the pattern (pre, then ID_LEN characters of the class) matches
\* the text starting at position pos
MatchAt(pre, s, pos) ==
  /\ pos >= 1
  /\ pos + Len(pre) + ID_LEN - 1 <= Len(s)
  /\ \A k \in 1..Len(pre) : s[pos + k - 1] = pre[k]
  /\ \A k \in 1..ID_LEN : s[pos + Len(pre) + k - 1] \in IdChars

\* m.group(1) of a match at pos
Group1(pre, s, pos) == SubSeq(s, pos + Len(pre), pos + Len(pre) + ID_LEN - 1)

RECURSIVE ScanFrom(_, _, _)
ScanFrom(pre, s, pos) ==
  IF pos > Len(s) THEN 0
  ELSE IF MatchAt(pre, s, pos) THEN pos
  ELSE ScanFrom(pre, s, pos + 1)

\* re.search(pat, url): the position of the leftmost match, 0 for None
re_search(pre, s) == ScanFrom(pre, s, 1)

RECURSIVE TryPatterns(_, _)
TryPatterns(k, s) ==
  IF k > Len(patterns)
  THEN [raised |-> "ValueError", value |-> <<>>]
  ELSE LET m == re_search(patterns[k], s)
       IN  IF m # 0
           THEN [raised |-> "none", value |-> Group1(patterns[k], s, m)]
           ELSE TryPatterns(k + 1, s)

\* a slip: the patterns tried from the last to the first
RECURSIVE TryPatternsDown(_, _)
TryPatternsDown(k, s) ==
  IF k < 1
  THEN [raised |-> "ValueError", value |-> <<>>]
  ELSE LET m == re_search(patterns[k], s)
       IN  IF m # 0
           THEN [raised |-> "none", value |-> Group1(patterns[k], s, m)]
           ELSE TryPatternsDown(k - 1, s)

parse_video_id_reversed(s) == TryPatternsDown(Len(patterns), s)

\* a slip: the input itself returned when no pattern matches
parse_video_id_lenient(s) ==
  IF TryPatterns(1, s).raised = "none" THEN TryPatterns(1, s)
  ELSE [raised |-> "none", value |-> s]

parse_video_id(s) == TryPatterns(1, s)

(***************************************************************************)
(* The URLs the parser is applied to: up to MaxPieces pieces, one after    *)
(* the other.                                                              *)
(***************************************************************************)
MaxPieces == 3

Pieces ==
  << <<"h", "t", "t", "p", "s", ":", "/", "/", "w", "w", "w", ".", "y", "o", "u", "t", "u", "b", "e", ".", "c", "o", "m", "/", "w", "a", "t", "c", "h", "?">>,
     <<"h", "t", "t", "p", "s", ":", "/", "/">>,
     <<"h", "t", "t", "p", "s", ":", "/", "/", "w", "w", "w", ".", "y", "o", "u", "t", "u", "b", "e", ".", "c", "o", "m", "/">>,
     <<"v", "=">>,
     <<"y", "o", "u", "t", "u", ".", "b", "e", "/">>,
     <<"e", "m", "b", "e", "d", "/">>,
     <<"d", "Q", "w", "4", "w", "9", "W", "g", "X", "c", "Q">>,
     <<"a", "-", "B", "_", "c", "0", "d", "1", "e", "2", "f">>,
     <<"Q", "w", "4">>,
     <<"n", "o", "t", " ", "a", " ", "u", "r", "l">>,
     <<"&">>,
     <<"?", "v", "=", "a", "-", "B", "_", "c", "0", "d", "1", "e", "2", "f">> >>

RECURSIVE Concat(_)
Concat(ps) == IF ps = <<>> THEN <<>> ELSE Pieces[Head(ps)] \o Concat(Tail(ps))

PieceSeqs == UNION {[1..n -> 1..Len(Pieces)] : n \in 0..MaxPieces}

Urls == {Concat(ps) : ps \in PieceSeqs}

(***************************************************************************)
(* get_video_info: the quality tiers.  A format is its height, 0 for a     *)
(* format that carries none.                                               *)
(***************************************************************************)
MaxFormats == 4

Heights == {0, 480, 720, 1080}

Programs == {"test", "video", "copy", "copy2"}

DigitChar(n) == <<"0", "1", "2", "3", "4", "5", "6", "7", "8", "9">>[n + 1]

RECURSIVE Digits(_)
Digits(n) == IF n < 10 THEN <<DigitChar(n)>>
             ELSE Digits(n \div 10) \o <<DigitChar(n % 10)>>

\* f"{height}p"
Tag(h) == Digits(h) \o <<"p">>

\* the code point of a character of a tag
Ord(c) == IF c = "p" THEN 112
          ELSE 48 + (CHOOSE n \in 0..9 : DigitChar(n) = c)

\* the order of str: by code point, a proper prefix first
RECURSIVE StrLess(_, _)
StrLess(a, b) ==
  IF b = <<>> THEN FALSE
  ELSE IF a = <<>> THEN TRUE
  ELSE IF Ord(Head(a)) # Ord(Head(b)) THEN Ord(Head(a)) < Ord(Head(b))
  ELSE StrLess(Tail(a), Tail(b))

\* sorted(a set of str)
RECURSIVE sorted(_)
sorted(S) ==
  IF S = {} THEN <<>>
  ELSE LET m == CHOOSE x \in S : \A y \in S : y = x \/ StrLess(x, y)
       IN  <<m>> \o sorted(S \ {m})

InSeq(x, s) == \E k \in 1..Len(s) : s[k] = x

\* the loop of "copy 2": append a tag unless it is already in the list
RECURSIVE AppendNew(_, _)
AppendNew(formats, qualities) ==
  IF formats = <<>> THEN qualities
  ELSE LET height == Head(formats)
       IN  IF height # 0 /\ ~InSeq(Tag(height), qualities)
           THEN AppendNew(Tail(formats), Append(qualities, Tag(height)))
           ELSE AppendNew(Tail(formats), qualities)

\* info['qualities'] as the program prog builds it
qualities(prog, formats) ==
  IF prog = "copy2"
  THEN AppendNew(formats, <<>>)
  ELSE sorted({Tag(formats[k]) : k \in {j \in 1..Len(formats) : formats[j] # 0}})

FormatLists == UNION {[1..n -> Heights] : n \in 0..MaxFormats}

(***************************************************************************)
(* The link of a segment: quote on the way out, urlparse, parse_qs and     *)
(* unquote on the way in.  Here a string is a sequence of code points.     *)
(***************************************************************************)
\* the longest path of a segment file
MaxPath == 4

\* the characters of a path:  / s 4 1 % space + &
PathChars == {47, 115, 52, 49, 37, 32, 43, 38}

Paths == UNION {[1..n -> PathChars] : n \in 0..MaxPath}

\* the characters quote never escapes: letters, digits and _ . - ~
Unreserved(c) == c \in (48..57) \cup (65..90) \cup (97..122) \cup {95, 46, 45, 126}

\* '%02X' of a byte
HexChar(v) == IF v < 10 THEN 48 + v ELSE 55 + v

\* urllib.parse.quote(s), safe='/', of characters below 128
RECURSIVE quote(_)
quote(s) ==
  IF s = <<>> THEN <<>>
  ELSE LET c == Head(s)
       IN  (IF Unreserved(c) \/ c = 47 THEN <<c>>
            ELSE <<37, HexChar(c \div 16), HexChar(c % 16)>>) \o quote(Tail(s))

\* the value of a hexadecimal digit, -1 for any other character
HexVal(c) ==
  IF c \in 48..57 THEN c - 48
  ELSE IF c \in 65..70 THEN c - 55
  ELSE IF c \in 97..102 THEN c - 87
  ELSE -1

\* urllib.parse.unquote(s): every %XX of two hexadecimal digits becomes the
\* byte XX (U+FFFD for a byte that is not UTF-8 on its own), anything else
\* stays
RECURSIVE unquote(_)
unquote(s) ==
  IF s = <<>> THEN <<>>
  ELSE IF Head(s) = 37 /\ Len(s) >= 3 /\ HexVal(s[2]) >= 0 /\ HexVal(s[3]) >= 0
  THEN LET b == 16 * HexVal(s[2]) + HexVal(s[3])
       IN  <<IF b < 128 THEN b ELSE 65533>> \o unquote(SubSeq(s, 4, Len(s)))
  ELSE <<Head(s)>> \o unquote(Tail(s))

\* the first position of character c in s, 0 when there is none
RECURSIVE Find(_, _, _)
Find(s, c, pos) ==
  IF pos > Len(s) THEN 0 ELSE IF s[pos] = c THEN pos ELSE Find(s, c, pos + 1)

\* s.split(c)
RECURSIVE Split(_, _)
Split(s, c) ==
  LET k == Find(s, c, 1)
  IN  IF k = 0 THEN <<s>>
      ELSE <<SubSeq(s, 1, k - 1)>> \o Split(SubSeq(s, k + 1, Len(s)), c)

\* urlparse(self.path).query: what follows the first '?', up to a '#'
urlparse_query(url) ==
  LET h == Find(url, 35, 1)
      nofrag == IF h = 0 THEN url ELSE SubSeq(url, 1, h - 1)
      q == Find(nofrag, 63, 1)
  IN  IF q = 0 THEN <<>> ELSE SubSeq(nofrag, q + 1, Len(nofrag))

PlusToSpace(s) == [k \in 1..Len(s) |-> IF s[k] = 43 THEN 32 ELSE s[k]]

\* "path"
PathKey == <<112, 97, 116, 104>>

\* parse_qs(query).get('path', [''])[0]: the fields are split at '&', each
\* at its first '=', a field without '=' or with an empty value is dropped,
\* '+' becomes a space and name and value are unquoted
RECURSIVE FirstPath(_)
FirstPath(fields) ==
  IF fields = <<>> THEN <<>>
  ELSE LET f == Head(fields)
           e == Find(f, 61, 1)
           name == unquote(PlusToSpace(SubSeq(f, 1, e - 1)))
           value == unquote(PlusToSpace(SubSeq(f, e + 1, Len(f))))
       IN  IF e # 0 /\ e < Len(f) /\ name = PathKey THEN value
           ELSE FirstPath(Tail(fields))

parse_qs_path(query) == FirstPath(Split(query, 38))

\* f"{host}/segment?path={quote(s)}" without the host: the request line
SegmentUrl(s) == <<47, 115, 101, 103, 109, 101, 110, 116, 63>> \o PathKey \o <<61>> \o quote(s)

\* path = unquote(params.get('path', [''])[0])
segment_path(url) == unquote(parse_qs_path(urlparse_query(url)))

(***************************************************************************)
(* The state.                                                              *)
(***************************************************************************)
VARIABLES
  parser,     \* parse_video_id: [url, result]
  info,       \* get_video_info: [formats, result]
  planner,    \* split_and_resize up to its plan: [file, orientation, crop, probe,
              \* duration, in_w, in_h, raised, pc, num_segs, seg_len, segs]
  program,    \* which of the programs runs: an element of Programs
  req,        \* the requests: one record per handler thread
  tmp,        \* the files in temp directories: path -> content
  tmpdirs,    \* the temp directories that exist
  made,       \* how many temp directories mkdtemp has made
  downloads,  \* DOWNLOAD_DIR: file name -> content
  link,       \* the link of a segment: [path, url, arg, pc]
  server      \* the server process: "serving", "stopped", "off" when not started

vars == <<parser, info, planner, program, req, tmp, tmpdirs, made, downloads, link, server>>

Pending == [raised |-> "pending", value |-> <<>>]

ParserIdle == parser = [url |-> <<>>, result |-> Pending]

InfoIdle == info = [formats |-> <<>>, result |-> <<"pending">>]

\* the frame sizes (width, height) of the files given to split_and_resize
Frames == {<<1920, 1080>>, <<640, 360>>, <<400, 720>>}

\* split_and_resize not yet called on a file of duration d and frame size f
PlannerAt(d, f, o, pc) ==
  [file |-> [duration |-> d, w |-> f[1], h |-> f[2]], orientation |-> o,
   crop |-> <<>>, probe |-> <<>>,
   duration |-> 0, in_w |-> 0, in_h |-> 0, raised |-> "none", pc |-> pc,
   num_segs |-> 0, seg_len |-> Rat(0, 1), segs |-> <<>>]

PlannerIdle == planner = PlannerAt(0, <<0, 0>>, "", "off")

LinkIdle == link = [path |-> <<>>, url |-> <<>>, arg |-> <<>>, pc |-> "off"]

(***************************************************************************)
(* The parser applied to a URL.                                            *)
(***************************************************************************)
ParseVideoId ==
  /\ parser.result = Pending
  /\ parser' = [parser EXCEPT !.result = parse_video_id(parser.url)]
  /\ UNCHANGED <<info, planner, program, req, tmp, tmpdirs, made, downloads, link, server>>

(***************************************************************************)
(* get_video_info applied to the formats the extractor reports.            *)
(***************************************************************************)
GetVideoInfo ==
  /\ info.result = <<"pending">>
  /\ info' = [info EXCEPT !.result = qualities(program, info.formats)]
  /\ UNCHANGED <<parser, planner, program, req, tmp, tmpdirs, made, downloads, link, server>>

(***************************************************************************)
(* The two ffprobe runs of split_and_resize.  out is what a run does:      *)
(* "absent" (there is no ffprobe to run: subprocess.run raises), "empty"   *)
(* (ffprobe exits with an error or prints nothing), "garbage" (it prints   *)
(* text that is no number) or "ok".                                        *)
(***************************************************************************)
ProbeDuration ==
  /\ planner.pc = "start"
  /\ \E out \in {"absent", "empty", "garbage", "ok"} :
       planner' =
         IF out = "absent"
         THEN [planner EXCEPT !.probe = <<out>>, !.raised = "FileNotFoundError",
                              !.pc = "raised"]
         ELSE [planner EXCEPT
                 !.probe = <<out>>,
                 \* try: float(proc.stdout.strip()) except: 0.0
                 !.duration = IF out = "ok" THEN planner.file.duration ELSE 0,
                 !.pc = "probe2"]
  /\ UNCHANGED <<parser, info, program, req, tmp, tmpdirs, made, downloads, link, server>>

ProbeSize ==
  /\ planner.pc = "probe2"
  /\ \E out \in {"empty", "garbage", "ok"} :
       planner' =
         [planner EXCEPT
            !.probe = Append(@, out),
            \* try: map(int, ...split(',')) except: 1280, 720
            !.in_w = IF out = "ok" THEN planner.file.w ELSE 1280,
            !.in_h = IF out = "ok" THEN planner.file.h ELSE 720,
            !.pc = "probed"]
  /\ UNCHANGED <<parser, info, program, req, tmp, tmpdirs, made, downloads, link, server>>

(***************************************************************************)
(* The plan of split_and_resize for a probed duration: the segment count   *)
(* and length, then one pass of the loop per segment.                      *)
(***************************************************************************)
PlanSegments ==
  /\ planner.pc = "probed"
  /\ planner' = [planner EXCEPT !.num_segs = num_segs(planner.duration),
                                !.seg_len = seg_len(planner.duration),
                                !.pc = "loop"]
  /\ UNCHANGED <<parser, info, program, req, tmp, tmpdirs, made, downloads, link, server>>

PlanSegment ==
  /\ planner.pc = "loop"
  /\ LET i == Len(planner.segs)
         seg == [start |-> SegStart(planner.duration, i),
                 end |-> SegEnd(planner.duration, i)]
         \* the filter: crop=w:h:x:y for 'vertical', a transpose otherwise
         crop == IF planner.orientation = "vertical"
                 THEN [w |-> crop_w(planner.in_h), h |-> crop_h(planner.in_h),
                       x |-> crop_x(planner.in_w, planner.in_h),
                       y |-> crop_y(planner.in_h)]
                 ELSE <<>>
     IN  planner' = [planner EXCEPT
                       !.crop = crop,
                       !.segs = Append(@, seg),
                       !.pc = IF i + 1 = planner.num_segs THEN "planned" ELSE "loop"]
  /\ UNCHANGED <<parser, info, program, req, tmp, tmpdirs, made, downloads, link, server>>

(***************************************************************************)
(* The link of a segment as /split writes it, and the path /segment reads  *)
(* from the request a client makes with it.                                *)
(***************************************************************************)
SplitItemUrl ==
  /\ link.pc = "split"
  /\ link' = [link EXCEPT !.url = SegmentUrl(link.path), !.pc = "segment"]
  /\ UNCHANGED <<parser, info, planner, program, req, tmp, tmpdirs, made, downloads, server>>

SegmentPath ==
  /\ link.pc = "segment"
  /\ link' = [link EXCEPT !.arg = segment_path(link.url), !.pc = "done"]
  /\ UNCHANGED <<parser, info, planner, program, req, tmp, tmpdirs, made, downloads, server>>

(***************************************************************************)
(* The HTTP server: ThreadingHTTPServer runs one handler thread per        *)
(* request.                                                                *)
(***************************************************************************)
\* how many requests the model follows; they may overlap in any way
MaxReq == 2

Req == 1..MaxReq

Videos == {"vidA", "vidB"}

\* what the client passes as resolution= ; int("abcp".rstrip("p")) raises
Resolutions == {"720p", "360p", "abc"}

Orientations == {"vertical", "horizontal"}

\* f.read(1024 * 512)
CHUNK == 524288

\* the duration ffprobe reports for the muxed file of a video
DurationOf(vid) == IF vid = "vidA" THEN 90 * DurUnit ELSE 30 * DurUnit

\* file names: "<base>.<ext>" or "<base>_<start>_<end>.<ext>"
FileName(base, ext) == [base |-> base, ext |-> ext, range |-> <<>>]

SegName(base, start, end) == [base |-> base, ext |-> "mp4", range |-> <<start, end>>]

\* a file in temp directory dir
TmpPath(dir, name) == [dir |-> dir, name |-> name]

\* os.path.join(DOWNLOAD_DIR, name): directory 0
DOWNLOAD_DIR == 0

NoPath == [dir |-> -1, name |-> FileName("", "")]

\* the content of a muxed file and of a segment cut from it
Muxed(vid, res) == [vid |-> vid, res |-> res, orient |-> "", range |-> <<>>]

Clip(src, orient, start, end) ==
  [vid |-> src.vid, res |-> src.res, orient |-> orient, range |-> <<start, end>>]

\* os.path.getsize: a muxed file of 720p fills two reads, one of a lower
\* resolution and a segment exactly one
SizeOf(data) == IF data.range = <<>> /\ data.res = "720p" THEN CHUNK + 1 ELSE CHUNK

Exists(path) == IF path.dir = DOWNLOAD_DIR THEN path.name \in DOMAIN downloads
                ELSE path \in DOMAIN tmp

Content(path) == IF path.dir = DOWNLOAD_DIR THEN downloads[path.name] ELSE tmp[path]

\* a function with one more (or one replaced) entry, and with one removed
Put(f, k, v) == [x \in DOMAIN f \cup {k} |-> IF x = k THEN v ELSE f[x]]

Drop(f, k) == [x \in DOMAIN f \ {k} |-> f[x]]

Idle ==
  [pc |-> "idle", method |-> "", path |-> "", vid |-> "", res |-> "", orient |-> "",
   arg |-> NoPath, tmpdir |-> -1, fp |-> NoPath, duration |-> 0, segs |-> <<>>,
   failed |-> {}, wrote |-> {}, status |-> <<>>, body |-> "none", clen |-> -1,
   file |-> Muxed("", ""), sent |-> 0, gone |-> FALSE, raised |-> {}, exc |-> "none",
   late |-> FALSE]

ServerIdle ==
  /\ server = "serving"
  /\ req = [r \in Req |-> Idle]
  /\ tmp = <<>>
  /\ tmpdirs = {}
  /\ made = 0
  /\ downloads = <<>>

\* no server: the state of the specifications of the pure functions
ServerOff ==
  /\ server = "off"
  /\ req = <<>>
  /\ tmp = <<>>
  /\ tmpdirs = {}
  /\ made = 0
  /\ downloads = <<>>

\* the routes a program serves with something else than 404
Serves(prog, method, path) ==
  \/ method = "POST" /\ path = "/fetch"
  \/ method = "GET" /\ path = "/"
  \/ method = "GET" /\ path = "/download" /\ prog \in {"video", "copy", "copy2"}
  \/ method = "GET" /\ path \in {"/split", "/segment"} /\ prog = "test"

\* _set_headers(code) and the write of the body
Emit(rec, code, body) == [rec EXCEPT !.status = Append(@, code), !.body = body]

\* an exception leaves the handler: the thread ends, nothing more is sent
Escape(rec, e) == [rec EXCEPT !.pc = "done", !.exc = e, !.raised = @ \cup {e}]

\* except Exception as e: _set_headers(400); wfile.write(json error).
\* w is what the write to the client does: "ok" or "broken" (client gone).
Except(rec, e, w) ==
  IF w = "ok"
  THEN [Emit(rec, 400, "error") EXCEPT !.pc = "done", !.raised = @ \cup {e}]
  ELSE Escape([Emit(rec, 400, rec.body) EXCEPT !.gone = TRUE, !.raised = @ \cup {e}],
              "BrokenPipeError")

\* a response outside any try: send_error(404), the index page
Reply(rec, code, body, w) ==
  IF w = "ok"
  THEN [Emit(rec, code, body) EXCEPT !.pc = "done"]
  ELSE Escape([Emit(rec, code, rec.body) EXCEPT !.gone = TRUE], "BrokenPipeError")

\* a slip: the handler returns without sending anything
send_error_silent(rec, code, w) == [rec EXCEPT !.pc = "done"]

\* self.send_error(code): the status line, the headers and the error page
send_error(rec, code, w) == Reply(rec, code, "error404", w)

Writes(r) == IF req[r].gone THEN {"broken"} ELSE {"ok", "broken"}

\* a response written inside a try block
TryReply(rec, code, body, w) ==
  IF w = "ok"
  THEN [Emit(rec, code, body) EXCEPT !.pc = "done"]
  ELSE Except([Emit(rec, code, rec.body) EXCEPT !.gone = TRUE], "BrokenPipeError", w)

UnchangedPure == UNCHANGED <<parser, info, planner, program, link>>

\* a slip: an exception that leaves a handler ends serve_forever
handle_error_fatal(s) == "stopped"

\* socketserver's process_request_thread: an exception that leaves the
\* handler is caught there, handle_error prints the traceback and the
\* server goes on
handle_error(s) == s

\* the step of handler thread r as the server sees it
ThreadStep(r) ==
  server' = IF req'[r].exc # "none" THEN handle_error(server) ELSE server

UnchangedFiles == UNCHANGED <<tmp, tmpdirs, made, downloads>>

(***************************************************************************)
(* A request arrives and a handler thread is started for it.               *)
(***************************************************************************)
\* a path that names no file
Missing == [dir |-> DOWNLOAD_DIR, name |-> FileName("nosuch", "mp4")]

\* what a client passes as path= : nothing, a path of no file, or the path
\* of any file there is
SegmentArgs ==
  {NoPath, Missing} \cup DOMAIN tmp
    \cup {[dir |-> DOWNLOAD_DIR, name |-> n] : n \in DOMAIN downloads}

Request(r) ==
  \* serve_forever accepts the connection
  /\ server = "serving"
  /\ req[r].pc = "idle"
  \* the requests are numbered in the order they arrive
  /\ \A q \in Req : q < r => req[q].pc # "idle"
  /\ \E method \in {"GET", "POST"}, path \in {"/", "/fetch", "/download", "/split", "/segment", "/other"},
        vid \in Videos \cup {""}, res \in Resolutions \cup {""},
        orient \in Orientations \cup {""}, arg \in SegmentArgs :
       LET served == Serves(program, method, path)
           media == served /\ path \in {"/download", "/split"}
       IN  /\ (vid # "") = media
           /\ (res # "") = media
           /\ (orient # "") = (served /\ path = "/split")
           /\ (arg # NoPath) => (served /\ path = "/segment")
           /\ req' = [req EXCEPT ![r] = [Idle EXCEPT !.pc = "handle", !.method = method,
                                           !.path = path, !.vid = vid, !.res = res,
                                           !.orient = orient, !.arg = arg,
                                           \* whether a handler has raised before
                                           !.late = \E q \in Req : req[q].raised # {}]]
  /\ UNCHANGED server
  /\ UnchangedFiles
  /\ UnchangedPure

(***************************************************************************)
(* do_POST, the whole handler.                                             *)
(***************************************************************************)
do_POST(r) ==
  /\ req[r].pc = "handle"
  /\ req[r].method = "POST"
  /\ \E length_ok \in BOOLEAN, json_ok \in BOOLEAN, info_ok \in BOOLEAN, w \in Writes(r) :
       LET rec == req[r]
       IN  req' = [req EXCEPT ![r] =
             IF rec.path # "/fetch" THEN send_error(rec, 404, w)
             \* int(self.headers.get('Content-Length', 0)), outside the try
             ELSE IF ~length_ok THEN Escape(rec, "ValueError")
             ELSE IF ~json_ok THEN Except(rec, "JSONDecodeError", w)
             ELSE IF ~info_ok THEN Except(rec, "DownloadError", w)
             ELSE TryReply(rec, 200, "json", w)]
  /\ UnchangedFiles
  /\ ThreadStep(r)
  /\ UnchangedPure

(***************************************************************************)
(* do_GET: the index page, and send_error(404) for any other path the      *)
(* program does not serve.                                                 *)
(***************************************************************************)
do_GET_static(r) ==
  /\ req[r].pc = "handle"
  /\ req[r].method = "GET"
  /\ req[r].path = "/" \/ ~Serves(program, "GET", req[r].path)
  /\ \E w \in Writes(r) :
       req' = [req EXCEPT ![r] =
                 IF req[r].path = "/" THEN Reply(req[r], 200, "html", w)
                 ELSE send_error(req[r], 404, w)]
  /\ UnchangedFiles
  /\ ThreadStep(r)
  /\ UnchangedPure

(***************************************************************************)
(* download_and_merge, called first in the try block of /download and      *)
(* /split.  out is what the extractor does: "raise", or it returns having  *)
(* written "<id>.mp4" ("mp4"), a file of another name ("other") or nothing *)
(* ("nofile").                                                             *)
(***************************************************************************)
download_and_merge(r, out, w) ==
  LET rec == req[r]
      dir == made + 1
      written == IF out = "mp4" THEN {FileName(rec.vid, "mp4")}
                 ELSE IF out = "other" THEN {FileName(rec.vid, "webm")}
                 ELSE {}
      tmp1 == [p \in DOMAIN tmp \cup {TmpPath(dir, n) : n \in written} |->
                 IF p \in DOMAIN tmp THEN tmp[p] ELSE Muxed(rec.vid, rec.res)]
      expected == TmpPath(dir, FileName(rec.vid, "mp4"))
      \* os.listdir(tmpdir): files[0] when the expected name is absent
      path == IF expected \in DOMAIN tmp1 \/ written = {} THEN expected
              ELSE TmpPath(dir, CHOOSE n \in written : TRUE)
      final == [dir |-> DOWNLOAD_DIR, name |-> path.name]
      next == IF rec.path = "/split" THEN "probe" ELSE "getsize"
  IN  IF rec.res = "abc"
      THEN \* int(resolution.rstrip('p')) raises before mkdtemp
           /\ req' = [req EXCEPT ![r] = Except(rec, "ValueError", w)]
           /\ UnchangedFiles
      ELSE IF out = "raise"
      THEN /\ req' = [req EXCEPT ![r] = Except([rec EXCEPT !.tmpdir = dir], "DownloadError", w)]
           /\ made' = dir
           /\ tmpdirs' = tmpdirs \cup {dir}
           /\ UNCHANGED <<tmp, downloads>>
      ELSE IF program # "video"
      THEN /\ req' = [req EXCEPT ![r] = [rec EXCEPT !.tmpdir = dir, !.fp = path, !.pc = next]]
           /\ made' = dir
           /\ tmpdirs' = tmpdirs \cup {dir}
           /\ tmp' = tmp1
           /\ UNCHANGED downloads
      ELSE IF path \notin DOMAIN tmp1
      THEN \* shutil.move(tmp_file, final_file) of a file that is not there
           /\ req' = [req EXCEPT ![r] = Except([rec EXCEPT !.tmpdir = dir], "FileNotFoundError", w)]
           /\ made' = dir
           /\ tmpdirs' = tmpdirs \cup {dir}
           /\ UNCHANGED <<tmp, downloads>>
      ELSE \* shutil.move into DOWNLOAD_DIR, then os.rmdir(tmpdir)
           /\ req' = [req EXCEPT ![r] = [rec EXCEPT !.tmpdir = dir, !.fp = final, !.pc = next,
                                                    !.wrote = @ \cup {path.name}]]
           /\ made' = dir
           /\ downloads' = Put(downloads, path.name, tmp1[path])
           /\ UNCHANGED <<tmp, tmpdirs>>

DownloadAndMerge(r) ==
  /\ req[r].pc = "handle"
  /\ req[r].method = "GET"
  /\ req[r].path \in {"/download", "/split"}
  /\ Serves(program, "GET", req[r].path)
  /\ \E out \in {"raise", "mp4", "other", "nofile"}, w \in Writes(r) :
       download_and_merge(r, out, w)
  /\ ThreadStep(r)
  /\ UnchangedPure

(***************************************************************************)
(* Streaming a file: os.path.getsize and the 200 headers, open, one        *)
(* f.read / wfile.write per chunk, and what follows the loop.  /download   *)
(* does all of it inside its try block, /segment outside any.              *)
(***************************************************************************)
\* an exception at a place of the streaming code
StreamRaise(rec, e, w) ==
  IF rec.path = "/download" THEN Except(rec, e, w) ELSE Escape(rec, e)

FileHeaders(r) ==
  /\ req[r].pc = "getsize"
  /\ \E w \in Writes(r) :
       LET rec == req[r]
       IN  req' = [req EXCEPT ![r] =
             IF ~Exists(rec.fp) THEN StreamRaise(rec, "FileNotFoundError", w)
             ELSE IF w = "ok"
             THEN [Emit(rec, 200, "file") EXCEPT !.clen = SizeOf(Content(rec.fp)),
                                                  !.pc = "open"]
             ELSE StreamRaise([Emit(rec, 200, rec.body) EXCEPT !.gone = TRUE],
                              "BrokenPipeError", w)]
  /\ UnchangedFiles
  /\ ThreadStep(r)
  /\ UnchangedPure

OpenFile(r) ==
  /\ req[r].pc = "open"
  /\ \E w \in Writes(r) :
       LET rec == req[r]
       IN  req' = [req EXCEPT ![r] =
             IF ~Exists(rec.fp) THEN StreamRaise(rec, "FileNotFoundError", w)
             ELSE [rec EXCEPT !.file = Content(rec.fp), !.sent = 0, !.pc = "stream"]]
  /\ UnchangedFiles
  /\ ThreadStep(r)
  /\ UnchangedPure

\* f.read returned a chunk: wfile.write(chunk)
StreamChunk(r) ==
  /\ req[r].pc = "stream"
  /\ req[r].sent < SizeOf(req[r].file)
  /\ \E w \in Writes(r) :
       LET rec == req[r]
           left == SizeOf(rec.file) - rec.sent
           n == IF left < CHUNK THEN left ELSE CHUNK
       IN  req' = [req EXCEPT ![r] =
             IF w = "ok" THEN [rec EXCEPT !.sent = @ + n]
             ELSE StreamRaise([rec EXCEPT !.gone = TRUE], "BrokenPipeError", w)]
  /\ UnchangedFiles
  /\ ThreadStep(r)
  /\ UnchangedPure

\* f.read returned b'': the loop ends; the single-shot programs then
\* os.remove the file and os.rmdir its directory
StreamEnd(r) ==
  /\ req[r].pc = "stream"
  /\ req[r].sent = SizeOf(req[r].file)
  /\ LET rec == req[r]
     IN  IF rec.path = "/download" /\ program \in {"copy", "copy2"}
         THEN IF Exists(rec.fp)
              THEN /\ req' = [req EXCEPT ![r] = [rec EXCEPT !.pc = "done"]]
                   /\ tmp' = Drop(tmp, rec.fp)
                   /\ tmpdirs' = tmpdirs \ {rec.fp.dir}
                   /\ UNCHANGED <<made, downloads>>
              ELSE /\ \E w \in Writes(r) :
                        req' = [req EXCEPT ![r] = Except(rec, "FileNotFoundError", w)]
                   /\ UnchangedFiles
         ELSE /\ req' = [req EXCEPT ![r] = [rec EXCEPT !.pc = "done"]]
              /\ UnchangedFiles
  /\ ThreadStep(r)
  /\ UnchangedPure

(***************************************************************************)
(* do_GET for /segment: no try block.                                      *)
(***************************************************************************)
do_GET_segment(r) ==
  /\ req[r].pc = "handle"
  /\ req[r].method = "GET"
  /\ req[r].path = "/segment"
  /\ Serves(program, "GET", "/segment")
  /\ \E w \in Writes(r) :
       LET rec == req[r]
       IN  req' = [req EXCEPT ![r] =
             IF Exists(rec.arg)
             THEN IF w = "ok"
                  THEN [Emit(rec, 200, "file") EXCEPT !.fp = rec.arg,
                          !.clen = SizeOf(Content(rec.arg)), !.pc = "open"]
                  ELSE Escape([Emit(rec, 200, rec.body) EXCEPT !.gone = TRUE],
                              "BrokenPipeError")
             ELSE send_error(rec, 404, w)]
  /\ UnchangedFiles
  /\ ThreadStep(r)
  /\ UnchangedPure

(***************************************************************************)
(* split_and_resize, called in the try block of /split after               *)
(* download_and_merge.                                                     *)
(***************************************************************************)
\* the two ffprobe runs.  probe is "ok", "empty" (ffprobe fails or prints
\* nothing a float can be read from) or "absent" (no ffprobe to run).
Probe(r) ==
  /\ req[r].pc = "probe"
  /\ \E probe \in {"ok", "empty", "absent"}, w \in Writes(r) :
       LET rec == req[r]
       IN  /\ probe = "ok" => Exists(rec.fp)
           /\ req' = [req EXCEPT ![r] =
                IF probe = "absent" THEN Except(rec, "FileNotFoundError", w)
                ELSE [rec EXCEPT !.duration = IF probe = "ok" THEN DurationOf(rec.vid) ELSE 0,
                                 !.pc = "segment"]]
  /\ UnchangedFiles
  /\ ThreadStep(r)
  /\ UnchangedPure

\* one pass of the loop: ffmpeg writes the segment into the temp directory
\* ("ok") or fails leaving no file ("fail"); shutil.move then takes the file
\* to DOWNLOAD_DIR.
SegmentStep(r) ==
  /\ req[r].pc = "segment"
  /\ \E ffmpeg \in {"ok", "fail"}, w \in Writes(r) :
       LET rec == req[r]
           i == Len(rec.segs)
           start == SegStart(rec.duration, i)
           end == SegEnd(rec.duration, i)
           name == SegName(rec.fp.name.base, start, end)
           last == i + 1 = num_segs(rec.duration)
       IN  /\ ffmpeg = "ok" => Exists(rec.fp)
           /\ IF ffmpeg = "fail"
              THEN \* shutil.move(inter, final): there is no inter
                   /\ req' = [req EXCEPT ![r] =
                        Except([rec EXCEPT !.failed = @ \cup {i}], "FileNotFoundError", w)]
                   /\ UNCHANGED downloads
              ELSE /\ req' = [req EXCEPT ![r] =
                        [rec EXCEPT !.segs = Append(@, name),
                                    !.wrote = @ \cup {name},
                                    !.pc = IF last THEN "respond" ELSE "segment"]]
                   /\ downloads' = Put(downloads, name,
                        Clip(Content(rec.fp), rec.orient, start, end))
  /\ UNCHANGED <<tmp, tmpdirs, made>>
  /\ ThreadStep(r)
  /\ UnchangedPure

\* split_and_resize has returned: the 200 response with the list of items
SplitRespond(r) ==
  /\ req[r].pc = "respond"
  /\ \E w \in Writes(r) :
       req' = [req EXCEPT ![r] = TryReply(req[r], 200, "json", w)]
  /\ UnchangedFiles
  /\ ThreadStep(r)
  /\ UnchangedPure

(***************************************************************************)
(* The specifications.                                                     *)
(***************************************************************************)
Init ==
  /\ program \in Programs
  /\ ServerIdle
  /\ ParserIdle
  /\ InfoIdle
  /\ PlannerIdle
  /\ LinkIdle

Next ==
  \E r \in Req :
    \/ Request(r)
    \/ do_POST(r)
    \/ do_GET_static(r)
    \/ do_GET_segment(r)
    \/ DownloadAndMerge(r)
    \/ FileHeaders(r)
    \/ OpenFile(r)
    \/ StreamChunk(r)
    \/ StreamEnd(r)
    \/ Probe(r)
    \/ SegmentStep(r)
    \/ SplitRespond(r)

Spec == Init /\ [][Next]_vars

\* parse_video_id on every URL of Urls
InitParse ==
  /\ program = "test"
  /\ ServerOff
  /\ InfoIdle
  /\ PlannerIdle
  /\ LinkIdle
  /\ \E u \in Urls : parser = [url |-> u, result |-> Pending]

SpecParse == InitParse /\ [][ParseVideoId]_vars

\* get_video_info of every program on every list of formats
InitInfo ==
  /\ program \in Programs
  /\ ServerOff
  /\ ParserIdle
  /\ PlannerIdle
  /\ LinkIdle
  /\ \E f \in FormatLists : info = [formats |-> f, result |-> <<"pending">>]

SpecInfo == InitInfo /\ [][GetVideoInfo]_vars

\* split_and_resize, up to its plan, on files of every duration
InitPlan ==
  /\ program = "test"
  /\ ServerOff
  /\ ParserIdle
  /\ InfoIdle
  /\ LinkIdle
  /\ \E d \in 0..(MaxSeconds * DurUnit), f \in Frames, o \in Orientations :
       planner = PlannerAt(d, f, o, "start")

NextPlan == ProbeDuration \/ ProbeSize \/ PlanSegments \/ PlanSegment

SpecPlan == InitPlan /\ [][NextPlan]_vars

\* the link of every path of Paths, written and read back
InitLink ==
  /\ program = "test"
  /\ ServerOff
  /\ ParserIdle
  /\ InfoIdle
  /\ PlannerIdle
  /\ \E p \in Paths : link = [path |-> p, url |-> <<>>, arg |-> <<>>, pc |-> "split"]

NextLink == SplitItemUrl \/ SegmentPath

SpecLink == InitLink /\ [][NextLink]_vars

(***************************************************************************)
(* Properties of the segment plan (SpecPlan).                              *)
(***************************************************************************)
RECURSIVE SumLengths(_)
SumLengths(segs) ==
  IF segs = <<>> THEN 0
  ELSE (Head(segs).end - Head(segs).start) + SumLengths(Tail(segs))

Abs(x) == IF x < 0 THEN -x ELSE x

\* C1: for every probed duration d >= 0 the number of segments is
\* max(1, ceil(d / 60)), i.e. the least n >= 1 with n * 60 >= d, and the
\* segment length times that number is d; d = 125 gives 3 segments of
\* 41.67 s.
PlanCountAndLength ==
  planner.pc \in {"loop", "planned"} =>
    LET d == planner.duration
        n == planner.num_segs
        len == planner.seg_len
    IN  /\ n >= 1
        /\ n * MAX_LEN * DurUnit >= d
        /\ n > 1 => (n - 1) * MAX_LEN * DurUnit < d
        /\ len.d > 0
        /\ len.n * n * DurUnit = d * len.d
        /\ d = 125 * DurUnit => n = 3 /\ PyRound(RatMul(100, len)) = 4167

PlanCountAndLengthWitness ==
  /\ planner.pc = "planned"
  /\ planner.duration = 125 * DurUnit
  /\ planner.num_segs = 3
  /\ planner.segs = <<[start |-> 0, end |-> 42], [start |-> 42, end |-> 83],
                      [start |-> 83, end |-> 125]>>

RECURSIVE AscendingTags(_)
AscendingTags(H) ==
  IF H = {} THEN <<>>
  ELSE LET least == CHOOSE h \in H : \A g \in H : h <= g
       IN  <<Tag(least)>> \o AscendingTags(H \ {least})

HeightsOf(formats) == {formats[k] : k \in 1..Len(formats)} \ {0}

\* C8: the quality tiers are the distinct non-empty heights of the formats,
\* each as "<height>p", in ascending numeric order of height.
TiersAscendByHeight ==
  info.result # <<"pending">> => info.result = AscendingTags(HeightsOf(info.formats))

(***************************************************************************)
(* Properties of parse_video_id (SpecParse).                               *)
(***************************************************************************)
\* pattern k occurs in s at pos
Occurs(k, s, pos) == MatchAt(patterns[k], s, pos)

Token(k, s, pos) == Group1(patterns[k], s, pos)

Occurrences(s) == {o \in (1..Len(patterns)) \X (1..Len(s)) : Occurs(o[1], s, o[2])}

\* C9, as claimed: for every URL containing the query form, the short-link
\* form or the embed form, the parser returns the token of that form, of
\* 11 characters of [0-9A-Za-z_-].
ParseReturnsEveryEmbeddedToken ==
  parser.result # Pending =>
    \A o \in Occurrences(parser.url) :
      /\ parser.result.raised = "none"
      /\ parser.result.value = Token(o[1], parser.url, o[2])
      /\ Len(parser.result.value) = ID_LEN

\* C9, amended: a URL containing one of the forms gives the token of the
\* first pattern, in the order query, short link, embed, that occurs in it,
\* at its leftmost occurrence; every value returned is 11 characters of
\* [0-9A-Za-z_-]; when all forms in the URL embed the same token (the three
\* forms of one video), that token is returned.
ParseReturnsFirstPatternToken ==
  parser.result # Pending =>
    LET s == parser.url
        occ == Occurrences(s)
        val == parser.result.value
    IN  /\ occ # {} =>
             /\ parser.result.raised = "none"
             /\ \E o \in occ :
                  /\ \A q \in occ : o[1] < q[1] \/ (o[1] = q[1] /\ o[2] <= q[2])
                  /\ val = Token(o[1], s, o[2])
             /\ \A o \in occ :
                  (\A q \in occ : Token(q[1], s, q[2]) = Token(o[1], s, o[2]))
                    => val = Token(o[1], s, o[2])
        /\ parser.result.raised = "none" =>
             /\ Len(val) = ID_LEN
             /\ \A k \in 1..Len(val) : val[k] \in IdChars

\* a URL with a short link and then a query parameter of another token: the
\* query parameter's token is returned
ParseReturnsFirstPatternTokenWitness ==
  /\ parser.result.raised = "none"
  /\ \E o, q \in Occurrences(parser.url) :
       /\ o[1] = 2 /\ q[1] = 1 /\ o[2] < q[2]
       /\ Token(o[1], parser.url, o[2]) # Token(q[1], parser.url, q[2])
       /\ parser.result.value = Token(q[1], parser.url, q[2])

\* C10: an input that matches none of the three patterns makes the parser
\* fail with ValueError and return no value.
ParseRejectsNonMatching ==
  (parser.result # Pending /\ Occurrences(parser.url) = {}) =>
    parser.result = [raised |-> "ValueError", value |-> <<>>]

\* "not a url"
ParseRejectsNonMatchingWitness ==
  /\ parser.url = Pieces[10]
  /\ Occurrences(parser.url) = {}
  /\ parser.result.raised = "ValueError"

(***************************************************************************)
(* Properties of the server (Spec).                                        *)
(***************************************************************************)
Running(r) == req[r].pc \notin {"idle", "done"}

\* the indexes of the plan of request r whose segment reached DOWNLOAD_DIR
Moved(r) ==
  {i \in 0..(num_segs(req[r].duration) - 1) :
     \E k \in 1..Len(req[r].segs) :
       req[r].segs[k].range = <<SegStart(req[r].duration, i), SegEnd(req[r].duration, i)>>}

\* C3: a failure of ffmpeg on one segment does not abort the plan: the
\* other segments are still transcoded and moved, and split_and_resize
\* returns instead of raising.
TranscodeFailureDoesNotAbort ==
  \A r \in Req :
    (req[r].pc = "done" /\ req[r].failed # {}) =>
      /\ "FileNotFoundError" \notin req[r].raised
      /\ \A i \in 0..(num_segs(req[r].duration) - 1) :
           i \notin req[r].failed => i \in Moved(r)

\* C4: no two requests that run at the same time write the same file name
\* in DOWNLOAD_DIR.
NoSharedOutputName ==
  \A r1, r2 \in Req :
    (r1 # r2 /\ Running(r1) /\ Running(r2)) => req[r1].wrote \cap req[r2].wrote = {}

\* C5: DOWNLOAD_DIR is append-only: a file in it is never removed and its
\* content is never replaced.
OutputAppendOnly ==
  [][\A n \in DOMAIN downloads : n \in DOMAIN downloads' /\ downloads'[n] = downloads[n]]_vars

\* C6: when a GET /download of a single-shot program has ended, the file it
\* downloaded and its temp directory are gone, also after a failed write to
\* the client.
DownloadCleanedUp ==
  \A r \in Req :
    (program \in {"copy", "copy2"} /\ req[r].path = "/download" /\ req[r].pc = "done"
       /\ req[r].fp # NoPath)
      => (~Exists(req[r].fp) /\ req[r].tmpdir \notin tmpdirs)

\* C7: an exception raised anywhere in a handler is caught and answered
\* with status 400 and the JSON error body (stated for clients that are
\* still connected).
ExceptionAnswered400 ==
  \A r \in Req :
    (req[r].pc = "done" /\ req[r].raised # {} /\ ~req[r].gone) =>
      (req[r].exc = "none" /\ req[r].status = <<400>> /\ req[r].body = "error")

\* a file stream of request r that ran to its end without an exception
Streamed(r) ==
  /\ req[r].pc = "done"
  /\ req[r].path \in {"/download", "/segment"}
  /\ req[r].status = <<200>>
  /\ req[r].body = "file"
  /\ req[r].raised = {}

\* C11: a file stream (GET /download, GET /segment) sends the size of the
\* file as Content-Length and then chunks of at most 512 KiB until the file
\* is exhausted; when the stream has ended the bytes written to the client
\* are exactly the Content-Length.
StreamSendsContentLength ==
  /\ [](\A r \in Req : Streamed(r) => req[r].sent = req[r].clen)
  /\ [][\A r \in Req : req'[r].sent - req[r].sent <= CHUNK]_vars

\* C12: download_and_merge raises when the extractor has returned and left
\* no file in the temp directory: the path it returns is the path of a file
\* that exists.
DownloadReturnsExistingFile ==
  \A r \in Req : req[r].pc \in {"getsize", "probe"} => Exists(req[r].fp)

\* request r has ended with its 200 response and no exception
Succeeded(r) ==
  /\ req[r].pc = "done"
  /\ req[r].status = <<200>>
  /\ req[r].raised = {}

\* C13: when a request that called download_and_merge (GET /download of
\* either kind, GET /split) has ended successfully, the muxed file is not
\* in its temp directory any more: it was removed after being streamed or
\* moved into DOWNLOAD_DIR.
MuxedSourceGone ==
  \A r \in Req :
    (Succeeded(r) /\ req[r].path \in {"/download", "/split"}) =>
      \A p \in DOMAIN tmp : p.dir # req[r].tmpdir

(***************************************************************************)
(* Properties of the probing of split_and_resize (SpecPlan).               *)
(***************************************************************************)
\* C14: a probe that fails (ffprobe cannot be run, exits with an error,
\* prints nothing or prints what cannot be parsed) does not make
\* split_and_resize fail: the duration is then 0, the frame size 1280x720,
\* and the plan has a single segment.
ProbeFailureNotFatal ==
  /\ planner.raised = "none"
  /\ planner.pc \in {"probed", "loop", "planned"} =>
       /\ planner.probe[1] # "ok" => planner.duration = 0
       /\ planner.probe[2] # "ok" => planner.in_w = 1280 /\ planner.in_h = 720
  /\ (planner.pc \in {"loop", "planned"} /\ planner.probe[1] # "ok") =>
       planner.num_segs = 1

(***************************************************************************)
(* More properties of the server (Spec).                                   *)
(***************************************************************************)
\* C15: every call of download_and_merge gets a temp directory of its own,
\* and no request reads, writes or deletes a file inside the temp directory
\* of another request (fp is the file a request probes, cuts, streams and
\* removes).
TempDirsIsolated ==
  \A r1, r2 \in Req :
    r1 # r2 =>
      /\ req[r1].tmpdir # -1 => req[r1].tmpdir # req[r2].tmpdir
      /\ (req[r1].fp # NoPath /\ req[r1].fp.dir # DOWNLOAD_DIR) =>
           req[r1].fp.dir # req[r2].tmpdir

(***************************************************************************)
(* Properties of the link of a segment (SpecLink).                         *)
(***************************************************************************)
\* C16: the url of an item returned by GET /split, requested with GET
\* /segment, names the segment's file: the path survives quote, parse_qs
\* and unquote unchanged (so that the file is found and streamed).
SegmentLinkRoundTrip ==
  link.pc = "done" => link.arg = link.path

(***************************************************************************)
(* Properties of the server process (Spec).                                *)
(***************************************************************************)
\* the request that arrives next
NextToArrive(r) ==
  /\ req[r].pc = "idle"
  /\ \A q \in Req : q < r => req[q].pc # "idle"

UnknownRoute(r) ==
  /\ req[r].pc # "idle"
  /\ ~Serves(program, req[r].method, req[r].path)

\* request r is a GET /segment of a path that names no file
MissingSegment(r) ==
  /\ req[r].pc # "idle"
  /\ req[r].method = "GET" /\ req[r].path = "/segment"
  /\ Serves(program, "GET", "/segment")
  /\ ~Exists(req[r].arg)

\* C18: a request for an unknown route, and a GET /segment of a path that
\* does not exist, is answered with 404 (the client being connected), and
\* it reads, writes and deletes no file.
UnknownAnswered404 ==
  /\ [](\A r \in Req :
          (UnknownRoute(r) \/ MissingSegment(r)) =>
            /\ req[r].fp = NoPath /\ req[r].tmpdir = -1 /\ req[r].wrote = {}
            /\ (req[r].pc = "done" /\ ~req[r].gone) =>
                 (req[r].status = <<404>> /\ req[r].raised = {}))
  /\ [][\A r \in Req :
          ((UnknownRoute(r) \/ MissingSegment(r)) /\ req'[r] # req[r]) =>
            UNCHANGED <<tmp, tmpdirs, made, downloads>>]_vars

\* one request for an unknown route and one GET /segment of a missing file,
\* both answered with 404
UnknownAnswered404Witness ==
  /\ program = "test"
  /\ \E q, r \in Req :
       /\ UnknownRoute(q) /\ req[q].status = <<404>> /\ req[q].pc = "done"
       /\ MissingSegment(r) /\ req[r].arg = Missing
       /\ req[r].status = <<404>> /\ req[r].pc = "done"

(***************************************************************************)
(* The cap of the segment plan (SpecPlan).                                 *)
(***************************************************************************)
\* C19: for every duration >= 0 no planned segment exceeds the cap of 60
\* seconds: the segment length is at most 60, and the rounded length
\* end - start of every segment is at most 60.
PlanUnderCap ==
  planner.pc \in {"loop", "planned"} =>
    /\ RatLeq(planner.seg_len, Rat(MAX_LEN, 1))
    /\ \A k \in 1..Len(planner.segs) :
         planner.segs[k].end - planner.segs[k].start <= MAX_LEN

\* a plan of several segments shorter than the cap whose rounded lengths
\* all reach it (119.5 s: 0-60, 60-120)
PlanUnderCapWitness ==
  /\ planner.pc = "planned"
  /\ planner.num_segs >= 2
  /\ ~RatLeq(Rat(MAX_LEN, 1), planner.seg_len)
  /\ \A k \in 1..Len(planner.segs) :
       planner.segs[k].end - planner.segs[k].start = MAX_LEN

\* C20: every request is answered with exactly one response: a handler
\* sends a status line and headers at most once, also when an exception
\* follows the 200 headers of a file stream, and a request that has ended
\* (its client being connected) has got one.
ExactlyOneResponse ==
  \A r \in Req :
    /\ Len(req[r].status) <= 1
    /\ (req[r].pc = "done" /\ ~req[r].gone) => Len(req[r].status) = 1

(***************************************************************************)
(* The crop of the vertical orientation (SpecPlan).                        *)
(***************************************************************************)
\* C21: for the vertical orientation and every source size the crop
\* rectangle (height = source height, width = floor(height * 9/16),
\* horizontally centred) lies inside the source frame: crop_x >= 0,
\* crop_y >= 0 and crop_x + crop_w <= source width.
CropInsideFrame ==
  (planner.orientation = "vertical" /\ planner.crop # <<>>) =>
    /\ planner.crop.h = planner.in_h
    /\ planner.crop.w * 16 <= planner.in_h * 9
    /\ (planner.crop.w + 1) * 16 > planner.in_h * 9
    /\ planner.crop.x >= 0
    /\ planner.crop.y >= 0
    /\ planner.crop.x + planner.crop.w <= planner.in_w

====
